---- MODULE Spec2Model ----
(***************************************************************************)
(* A model of structarg: the schema builder (addArgument / AddArgument),   *)
(* the gotypes coercion layer (ParseValue / SetValue / AppendValue), the   *)
(* argument variants (SingleArgument / MultiArgument / SubcommandArgument) *)
(* and the parser engine (ParseArgs / ParseFile).                          *)
(*                                                                         *)
(* Text is a sequence of one-character strings, so that prefixes, trimming *)
(* and digit-by-digit parsing are computed as the code computes them.      *)
(* 64-bit integers are four 16-bit limbs, least significant first.         *)
(* Errors are tags; "nil" is the nil error and "panic" a run-time panic.   *)
(***************************************************************************)
EXTENDS Integers, Sequences, FiniteSets, TLC

VARIABLES
    parser,     \* the ArgumentParser under construction or being driven
    ret,        \* the error returned by the last operation ("none" before any)
    pc,         \* which operation ran last
    field,      \* the struct field handed to the last addArgument
    args,       \* the token stream handed to ParseArgs
    ignore_unknown, \* the mode handed to ParseArgs
    calls,      \* the ParseArgs invocations of the last parse, in call order
    lines,      \* the lines handed to ParseFile
    slot,       \* a reflect.Value slot driven directly (gotypes, argument level)
    steps,      \* the tokens the last parse consumed: who consumed which, and how
    parser0,    \* the parser as constructed, before the parse
    text,       \* the text handed to the last gotypes or setValue call
    parsed,     \* the value returned by the last ParseValue
    arg,        \* an argument spec driven directly (SetValue / Validate)
    supplied    \* how many SetValue calls on arg returned nil

vars == <<parser, ret, pc, field, args, ignore_unknown, calls, lines, slot,
          steps, parser0, text, parsed, arg, supplied>>

(***************************************************************************)
(* Bounds of the model.                                                    *)
(***************************************************************************)
MaxIdentLen == 3
MaxTagLen == 3
MaxTextLen == 3

(***************************************************************************)
(* Strings.                                                                *)
(***************************************************************************)
UpperSeq == <<"A","B","C","D","E","F","G","H","I","J","K","L","M",
              "N","O","P","Q","R","S","T","U","V","W","X","Y","Z">>
LowerSeq == <<"a","b","c","d","e","f","g","h","i","j","k","l","m",
              "n","o","p","q","r","s","t","u","v","w","x","y","z">>
UpperLetters == {UpperSeq[i] : i \in DOMAIN UpperSeq}
LowerLetters == {LowerSeq[i] : i \in DOMAIN LowerSeq}

ToLowerChar(c) ==
    IF c \in UpperLetters
    THEN LowerSeq[CHOOSE i \in DOMAIN UpperSeq : UpperSeq[i] = c]
    ELSE c

ToUpperChar(c) ==
    IF c \in LowerLetters
    THEN UpperSeq[CHOOSE i \in DOMAIN LowerSeq : LowerSeq[i] = c]
    ELSE c

\* strings.ToUpper
ToUpper(str) == [i \in 1..Len(str) |-> ToUpperChar(str[i])]

\* strings.HasPrefix
HasPrefix(s, prefix) ==
    /\ Len(prefix) <= Len(s)
    /\ SubSeq(s, 1, Len(prefix)) = prefix

\* strings.TrimLeft(s, c) and strings.Trim(s, c) for a one-character cutset
TrimLeft(s, c) ==
    IF \A i \in 1..Len(s) : s[i] = c
    THEN <<>>
    ELSE SubSeq(s, CHOOSE i \in 1..Len(s) :
                       s[i] # c /\ \A j \in 1..(i-1) : s[j] = c, Len(s))

TrimRight(s, c) ==
    IF \A i \in 1..Len(s) : s[i] = c
    THEN <<>>
    ELSE SubSeq(s, 1, CHOOSE i \in 1..Len(s) :
                          s[i] # c /\ \A j \in (i+1)..Len(s) : s[j] = c)

Trim(s, c) == TrimRight(TrimLeft(s, c), c)

\* strings.IndexByte, 0-based as in Go, -1 when absent
IndexByte(s, c) ==
    IF \E i \in 1..Len(s) : s[i] = c
    THEN (CHOOSE i \in 1..Len(s) : s[i] = c /\ \A j \in 1..(i-1) : s[j] # c) - 1
    ELSE -1

\* strings.Replace(s, old, new, -1) for one-character old and new
ReplaceChar(s, old, new) == [i \in 1..Len(s) |-> IF s[i] = old THEN new ELSE s[i]]

\* strings.Split(s, sep) for a one-character sep
RECURSIVE Split(_, _)
Split(s, sep) ==
    LET p == IndexByte(s, sep)
    IN  IF p < 0 THEN <<s>>
        ELSE <<SubSeq(s, 1, p)>> \o Split(SubSeq(s, p + 2, Len(s)), sep)

\* every string over alphabet of length at most n
StringsUpTo(alphabet, n) == UNION {[1..k -> alphabet] : k \in 0..n}

(***************************************************************************)
(* splitCamelString and its helper.                                        *)
(***************************************************************************)
isUpperChar(ch) == ch \in UpperLetters

\* the hyphen test without its look at a hyphen before
needsHyphenAfterSeparator(str, i, buf) ==
    Len(buf) > 0 /\ ~isUpperChar(str[i-1])
\* the hyphen test of splitCamelString, on the buffer written so far and
\* the byte before str[i] (i is 1-based here)
needsHyphen(str, i, buf) ==
    Len(buf) > 0 /\ ~isUpperChar(str[i-1]) /\ str[i-1] # "-"

RECURSIVE splitCamelLoop(_, _, _)
splitCamelLoop(str, i, buf) ==
    IF i > Len(str) THEN buf
    ELSE LET c == str[i]
         IN  IF isUpperChar(c)
             THEN splitCamelLoop(str, i + 1,
                    (IF needsHyphen(str, i, buf) THEN buf \o <<"-">> ELSE buf)
                        \o <<ToLowerChar(c)>>)
             ELSE IF c = "_"
             THEN splitCamelLoop(str, i + 1, buf \o <<"-">>)
             ELSE splitCamelLoop(str, i + 1, buf \o <<c>>)

splitCamelString(str) ==
    IF ToUpper(str) = str THEN str ELSE splitCamelLoop(str, 1, <<>>)

(***************************************************************************)
(* strconv: ParseBool, ParseUint(s, 10, 64), ParseInt(s, 10, 64).          *)
(***************************************************************************)
Limb == 2^16
ZeroLimbs == <<0, 0, 0, 0>>
MaxLimbs == <<Limb - 1, Limb - 1, Limb - 1, Limb - 1>>

DigitSeq == <<"0","1","2","3","4","5","6","7","8","9">>
Digits == {DigitSeq[i] : i \in DOMAIN DigitSeq}
DigitVal(c) == (CHOOSE i \in DOMAIN DigitSeq : DigitSeq[i] = c) - 1

\* carries propagated through raw limb sums, from limb i on
RECURSIVE propagate(_, _, _, _)
propagate(raw, i, carry, acc) ==
    IF i > Len(raw) THEN [n |-> acc, carry |-> carry]
    ELSE propagate(raw, i + 1, (raw[i] + carry) \div Limb,
                   Append(acc, (raw[i] + carry) % Limb))

\* n*10 + d on limbs; carry is what does not fit 64 bits
Mul10Add(n, d) ==
    propagate(<<n[1] * 10 + d, n[2] * 10, n[3] * 10, n[4] * 10>>, 1, 0, <<>>)

\* two's complement of a 64-bit pattern
Negate(n) ==
    propagate(<<(Limb - 1 - n[1]) + 1, Limb - 1 - n[2],
                Limb - 1 - n[3], Limb - 1 - n[4]>>, 1, 0, <<>>).n

RECURSIVE parseDigits(_, _, _)
\* one digit of ParseUint taken: m is n*10 + d with its overflow
digitTaken(s, i, m) ==
    IF m.carry > 0 THEN [err |-> "ErrRange", n |-> MaxLimbs]
    ELSE parseDigits(s, i + 1, m.n)

parseDigits(s, i, n) ==
    IF i > Len(s) THEN [err |-> "nil", n |-> n]
    ELSE IF s[i] \notin Digits THEN [err |-> "ErrSyntax", n |-> ZeroLimbs]
    ELSE digitTaken(s, i, Mul10Add(n, DigitVal(s[i])))

ParseUint(s) ==
    IF Len(s) = 0 THEN [err |-> "ErrSyntax", n |-> ZeroLimbs]
    ELSE parseDigits(s, 1, ZeroLimbs)

HalfLimb == Limb \div 2

\* the sign and range handling of ParseInt on the magnitude u ParseUint gave
signedOf(neg, u) ==
    IF u.err = "ErrSyntax" THEN [err |-> "ErrSyntax", n |-> ZeroLimbs]
    ELSE IF ~neg /\ u.n[4] >= HalfLimb
    THEN [err |-> "ErrRange", n |-> <<Limb - 1, Limb - 1, Limb - 1, HalfLimb - 1>>]
    ELSE IF neg /\ (u.n[4] > HalfLimb \/
                    (u.n[4] = HalfLimb /\ <<u.n[1], u.n[2], u.n[3]>> # <<0, 0, 0>>))
    THEN [err |-> "ErrRange", n |-> <<0, 0, 0, HalfLimb>>]
    ELSE [err |-> "nil", n |-> IF neg THEN Negate(u.n) ELSE u.n]

\* the result n is the int64 as its 64-bit two's-complement pattern
ParseInt(s) ==
    IF Len(s) = 0 THEN [err |-> "ErrSyntax", n |-> ZeroLimbs]
    ELSE signedOf(s[1] = "-",
                  ParseUint(IF s[1] \in {"+", "-"} THEN SubSeq(s, 2, Len(s)) ELSE s))

TrueTexts == {<<"1">>, <<"t">>, <<"T">>, <<"T","R","U","E">>,
              <<"t","r","u","e">>, <<"T","r","u","e">>}
FalseTexts == {<<"0">>, <<"f">>, <<"F">>, <<"F","A","L","S","E">>,
               <<"f","a","l","s","e">>, <<"F","a","l","s","e">>}

ParseBool(s) ==
    IF s \in TrueTexts THEN [err |-> "nil", b |-> TRUE]
    ELSE IF s \in FalseTexts THEN [err |-> "nil", b |-> FALSE]
    ELSE [err |-> "ErrSyntax", b |-> FALSE]

(***************************************************************************)
(* reflect: types and values.  The float kinds are left out of the model.  *)
(***************************************************************************)
SignedKinds == {"int", "int8", "int16", "int32", "int64"}
UnsignedKinds == {"uint", "uint8", "uint16", "uint32", "uint64"}
ScalarKinds == {"bool", "string"} \cup SignedKinds \cup UnsignedKinds

ScalarT(k) == [kind |-> k, elem |-> "", len |-> 0, fields |-> <<>>]
SliceT(e) == [kind |-> "slice", elem |-> e, len |-> 0, fields |-> <<>>]
ArrayT(e, n) == [kind |-> "array", elem |-> e, len |-> n, fields |-> <<>>]
StructT(fs) == [kind |-> "struct", elem |-> "", len |-> 0, fields |-> fs]
NilType == ScalarT("nil")

BoolType == ScalarT("bool")
StringType == ScalarT("string")

Width(k) ==
    CASE k \in {"int8", "uint8"} -> 8
      [] k \in {"int16", "uint16"} -> 16
      [] k \in {"int32", "uint32"} -> 32
      [] OTHER -> 64

\* the conversion intN(x) / uintN(x), and what reflect's SetInt / SetUint
\* store into a slot of that width: the low bits of the pattern
Truncate(n, k) ==
    CASE Width(k) = 8  -> <<n[1] % 2^8, 0, 0, 0>>
      [] Width(k) = 16 -> <<n[1], 0, 0, 0>>
      [] Width(k) = 32 -> <<n[1], n[2], 0, 0>>
      [] OTHER -> n

ZeroPayload(tp) ==
    CASE tp.kind = "bool" -> FALSE
      [] tp.kind = "string" -> <<>>
      [] tp.kind \in SignedKinds \cup UnsignedKinds -> ZeroLimbs
      [] tp.kind = "array" ->
            [i \in 1..tp.len |->
                CASE tp.elem = "bool" -> FALSE
                  [] tp.elem = "string" -> <<>>
                  [] OTHER -> ZeroLimbs]
      [] OTHER -> <<>>

Zero(tp) == [type |-> tp, v |-> ZeroPayload(tp)]

\* reflect.Value.Len of an array or slice
ValueLen(value) == Len(value.v)

\* the parts of the state a specification does not drive
NoParser == [optArgs |-> <<>>, posArgs |-> <<>>]
NoField == <<>>
NoValue == Zero(NilType)
NoArg == <<>>

IdleParse ==
    /\ parser = NoParser /\ parser0 = NoParser /\ args = <<>>
    /\ ignore_unknown = FALSE /\ calls = <<>> /\ steps = <<>> /\ lines = <<>>
IdleCoerce == slot = NoValue /\ parsed = NoValue
IdleArg == arg = NoArg /\ supplied = 0
IdleField == field = NoField

parseVars == <<parser, parser0, args, ignore_unknown, calls, steps, lines>>
coerceVars == <<slot, parsed>>
argVars == <<arg, supplied>>

(***************************************************************************)
(* gotypes.                                                                *)
(***************************************************************************)
\* what ParseValue returns for an integer kind: the conversion of the parsed
\* 64-bit number to the kind, and strconv's error
convertedInt(tp, r) ==
    [err |-> r.err, v |-> [type |-> tp, v |-> Truncate(r.n, tp.kind)]]

convertedBool(tp, r) == [err |-> r.err, v |-> [type |-> tp, v |-> r.b]]

ParseValue(val, tp) ==
    CASE tp = BoolType -> convertedBool(tp, ParseBool(val))
      [] tp.kind \in SignedKinds /\ tp = ScalarT(tp.kind) ->
            convertedInt(tp, ParseInt(val))
      [] tp.kind \in UnsignedKinds /\ tp = ScalarT(tp.kind) ->
            convertedInt(tp, ParseUint(val))
      [] tp = StringType -> [err |-> "nil", v |-> [type |-> tp, v |-> val]]
      [] OTHER -> [err |-> "ErrCannotParse", v |-> [type |-> StringType, v |-> val]]

\* value.SetInt / value.SetUint of the parsed number, unless strconv failed
storedInt(value, r) ==
    IF r.err # "nil" THEN [err |-> r.err, value |-> value]
    ELSE [err |-> "nil",
          value |-> [value EXCEPT !.v = Truncate(r.n, value.type.kind)]]

storedBool(value, r) ==
    IF r.err # "nil" THEN [err |-> r.err, value |-> value]
    ELSE [err |-> "nil", value |-> [value EXCEPT !.v = r.b]]

\* gotypes.SetValue: the error and the slot after the call
SetValue(value, val) ==
    CASE value.type = BoolType -> storedBool(value, ParseBool(val))
      [] value.type.kind \in SignedKinds /\ value.type = ScalarT(value.type.kind) ->
            storedInt(value, ParseInt(val))
      [] value.type.kind \in UnsignedKinds /\ value.type = ScalarT(value.type.kind) ->
            storedInt(value, ParseUint(val))
      [] value.type = StringType ->
            [err |-> "nil", value |-> [value EXCEPT !.v = val]]
      [] OTHER -> [err |-> "ErrUnsupported", value |-> value]

SliceBaseType(tp) ==
    IF tp.kind = "slice" /\ tp.elem \in ScalarKinds /\ tp = SliceT(tp.elem)
    THEN ScalarT(tp.elem)
    ELSE NilType

\* reflect.Append of the parsed element, unless ParseValue failed
appended(value, r) ==
    IF r.err # "nil" THEN [err |-> r.err, value |-> value]
    ELSE [err |-> "nil", value |-> [value EXCEPT !.v = Append(value.v, r.v.v)]]

AppendValue(value, val) ==
    IF SliceBaseType(value.type) = NilType
    THEN [err |-> "ErrAppendNonSlice", value |-> value]
    ELSE appended(value, ParseValue(val, SliceBaseType(value.type)))

(***************************************************************************)
(* The argument variants.  One record shape serves SingleArgument,         *)
(* MultiArgument and SubcommandArgument; value is the target's slot, which *)
(* the argument holds by reference.  help, metavar and the parser          *)
(* back-pointer only serve the usage text and are left out.                *)
(***************************************************************************)
NoSubcommands == [c \in {} |-> <<>>]

SingleArgument(token, shortToken, optional, positional, choices, useDefault, defValue, value) ==
    [variant |-> "single", token |-> token, shortToken |-> shortToken,
     optional |-> optional, positional |-> positional, choices |-> choices,
     useDefault |-> useDefault, defValue |-> defValue, value |-> value,
     isSet |-> FALSE, minCount |-> 0, maxCount |-> 0,
     subcommands |-> NoSubcommands]

MultiArgument(sarg, min, max) ==
    [sarg EXCEPT !.variant = "multi", !.minCount = min, !.maxCount = max]

SubcommandArgument(sarg) == [sarg EXCEPT !.variant = "sub"]

NeedData(a) == a.value.type.kind # "bool"
Token(a) == splitCamelString(a.token)
ShortToken(a) == a.shortToken
IsOptional(a) == a.optional
IsPositional(a) == a.positional
IsMulti(a) == a.variant = "multi"
IsSubcommand(a) == a.variant = "sub"

\* a choice test that lets every text through
InChoicesAny(a, val) == TRUE
InChoices(a, val) ==
    IF Len(a.choices) > 0
    THEN \E i \in 1..Len(a.choices) : a.choices[i] = val
    ELSE TRUE

\* the argument after gotypes stored (or failed to store) the text
valueSet(a, r) ==
    IF r.err # "nil" THEN [err |-> r.err, arg |-> a]
    ELSE [err |-> "nil", arg |-> [a EXCEPT !.value = r.value, !.isSet = TRUE]]

\* SingleArgument.SetValue: the error and the argument after the call
SingleSetValue(a, val) ==
    IF ~InChoices(a, val) THEN [err |-> "ErrChoice", arg |-> a]
    ELSE valueSet(a, SetValue(a.value, val))

\* MultiArgument.SetValue
MultiSetValue(a, val) ==
    IF ~InChoices(a, val) THEN [err |-> "ErrChoice", arg |-> a]
    ELSE valueSet(a, AppendValue(a.value, val))

\* Argument.SetValue, dispatched on the variant (SubcommandArgument inherits
\* SingleArgument's)
ArgSetValue(a, val) ==
    IF IsMulti(a) THEN MultiSetValue(a, val) ELSE SingleSetValue(a, val)

\* SingleArgument.DoAction
DoAction(a) ==
    IF a.value.type = BoolType
    THEN [err |-> "nil",
          arg |-> [a EXCEPT !.value.v = IF a.useDefault THEN ~a.defValue.v ELSE TRUE,
                            !.isSet = TRUE]]
    ELSE [err |-> "nil", arg |-> a]

\* SingleArgument.Validate
SingleValidate(a) ==
    IF ~a.optional /\ ~a.isSet /\ ~a.useDefault
    THEN [err |-> "ErrNotSet", arg |-> a]
    ELSE IF ~a.isSet /\ a.useDefault
    THEN [err |-> "nil", arg |-> [a EXCEPT !.value = a.defValue]]
    ELSE [err |-> "nil", arg |-> a]

\* the two bound tests of MultiArgument.Validate
belowMin(a, vallen) == a.minCount >= 0 /\ vallen < a.minCount
aboveMax(a, vallen) == a.maxCount >= 0 /\ vallen > a.maxCount

\* MultiArgument.Validate after SingleArgument.Validate returned r
countChecked(r) ==
    IF r.err # "nil" THEN r
    ELSE IF belowMin(r.arg, ValueLen(r.arg.value))
    THEN [err |-> "ErrAtLeast", arg |-> r.arg]
    ELSE IF aboveMax(r.arg, ValueLen(r.arg.value))
    THEN [err |-> "ErrAtMost", arg |-> r.arg]
    ELSE [err |-> "nil", arg |-> r.arg]

\* MultiArgument.Validate
MultiValidate(a) == countChecked(SingleValidate(a))

\* Argument.Validate, dispatched on the variant
ArgValidate(a) ==
    IF IsMulti(a) THEN MultiValidate(a) ELSE SingleValidate(a)

(***************************************************************************)
(* The schema builder.  A field is its name, its type and its tags; a tag  *)
(* that is absent is the empty text, as with StructTag.Get.                *)
(***************************************************************************)
NoTags == [token |-> <<>>, short_token |-> <<>>, default |-> <<>>,
           choices |-> <<>>, optional |-> <<>>, subcommand |-> <<>>,
           nargs |-> <<>>]

Field(name, tp, tags) == [Name |-> name, Type |-> tp, Tag |-> tags]

\* the process environment os.Getenv reads: H is set, anything else is not
Environ == [n \in {<<"H">>} |-> <<"e">>]
Getenv(n) == IF n \in DOMAIN Environ THEN Environ[n] ELSE <<>>

\* one candidate of the default tag, after the environment lookup
candidate(dv) == IF dv[1] = "$" THEN Getenv(TrimLeft(dv, "$")) ELSE dv

\* the candidate loop of addArgument (lines 170-178); dv[0] of an empty
\* candidate is an index out of range
RECURSIVE resolveDefault(_, _, _)
resolveDefault(cands, i, defval) ==
    IF i > Len(cands) THEN [panic |-> FALSE, defval |-> defval]
    ELSE IF Len(cands[i]) = 0 THEN [panic |-> TRUE, defval |-> defval]
    ELSE IF Len(candidate(cands[i])) > 0
    THEN [panic |-> FALSE, defval |-> candidate(cands[i])]
    ELSE resolveDefault(cands, i + 1, candidate(cands[i]))

\* defval after lines 168-179
defaultOf(f) ==
    IF Len(f.Tag.default) > 0
    THEN resolveDefault(Split(f.Tag.default, "|"), 1, f.Tag.default)
    ELSE [panic |-> FALSE, defval |-> <<>>]

\* the choices tag split on "|", empty pieces dropped
choicesOf(choices_str) ==
    IF Len(choices_str) = 0 THEN <<>>
    ELSE SelectSeq(Split(choices_str, "|"), LAMBDA c : Len(c) > 0)

\* an int64 pattern as an integer, for the small counts nargs holds
Int64Value(n) ==
    IF n[4] >= HalfLimb
    THEN -(Negate(n)[1] + Limb * Negate(n)[2])
    ELSE n[1] + Limb * n[2]

exactCount(r) ==
    IF r.err = "nil"
    THEN [err |-> "nil", min |-> Int64Value(r.n), max |-> Int64Value(r.n)]
    ELSE [err |-> "ErrNargs", min |-> 0, max |-> 0]

\* the nargs tag of an array field: [err, min, max]
nargsOf(nargs) ==
    CASE nargs = <<"*">> -> [err |-> "nil", min |-> 0, max |-> -1]
      [] nargs = <<"?">> -> [err |-> "nil", min |-> 0, max |-> 1]
      [] nargs = <<"+">> -> [err |-> "nil", min |-> 1, max |-> -1]
      [] OTHER -> exactCount(ParseInt(nargs))

\* the classification by the casing of the field name (lines 193-200)
positionalByName(name) == name = ToUpper(name)

\* optional after the optional tag (lines 201-208)
optionalOf(f) ==
    CASE f.Tag.optional = <<"t","r","u","e">> -> TRUE
      [] f.Tag.optional = <<"f","a","l","s","e">> -> FALSE
      [] OTHER -> ~positionalByName(f.Name)

\* the subcommand tag (lines 212-215)
subcommandOf(f) ==
    ParseBool(f.Tag.subcommand).err = "nil" /\ ParseBool(f.Tag.subcommand).b

\* the test of line 209
defaultOnRequired(positional, optional, use_default) ==
    positional /\ ~optional /\ use_default

\* the rejection test without its multi-valued case
rejectAfterSingle(last_arg, a) ==
    CASE IsSubcommand(last_arg) -> "ErrAfterSubcommand"
      [] IsOptional(last_arg) /\ ~IsOptional(a) -> "ErrAfterOptional"
      [] OTHER -> "nil"
\* the rejection test of AddArgument for a positional argument after last_arg
rejectAfter(last_arg, a) ==
    CASE IsMulti(last_arg) -> "ErrAfterMulti"
      [] IsSubcommand(last_arg) -> "ErrAfterSubcommand"
      [] IsOptional(last_arg) /\ ~IsOptional(a) -> "ErrAfterOptional"
      [] OTHER -> "nil"

\* lines 269-279: the schema error of appending positional a, "nil" for none
rejection(p, a) ==
    IF Len(p.posArgs) > 0 THEN rejectAfter(p.posArgs[Len(p.posArgs)], a)
    ELSE "nil"

\* ArgumentParser.AddArgument: the error and the parser after the call
AddArgument(p, a) ==
    IF IsPositional(a)
    THEN IF rejection(p, a) # "nil" THEN [err |-> rejection(p, a), parser |-> p]
         ELSE [err |-> "nil", parser |-> [p EXCEPT !.posArgs = Append(@, a)]]
    ELSE [err |-> "nil", parser |-> [p EXCEPT !.optArgs = Append(@, a)]]

\* lines 235-264: the variant is chosen and registered
registered(p, f, sarg, subcommand, n) ==
    IF subcommand THEN AddArgument(p, SubcommandArgument(sarg))
    ELSE IF f.Type.kind = "array"
    THEN IF n.err # "nil" THEN [err |-> n.err, parser |-> p]
         ELSE AddArgument(p, MultiArgument(sarg, n.min, n.max))
    ELSE AddArgument(p, sarg)

\* lines 216-234: the default is parsed and the base argument is made
withDefault(p, f, v, defval, subcommand, def) ==
    IF def.err # "nil" THEN [err |-> def.err, parser |-> p]
    ELSE registered(p, f,
            SingleArgument(IF Len(f.Tag.token) = 0 THEN f.Name ELSE f.Tag.token,
                f.Tag.short_token,
                IF subcommand THEN FALSE ELSE optionalOf(f),
                IF subcommand THEN TRUE ELSE positionalByName(f.Name),
                choicesOf(f.Tag.choices), Len(defval) # 0, def.v, v),
            subcommand, nargsOf(f.Tag.nargs))

\* lines 180-215, for the default text res resolved
classified(p, f, v, res) ==
    IF res.panic THEN [err |-> "panic", parser |-> p]
    ELSE IF defaultOnRequired(positionalByName(f.Name), optionalOf(f),
                              Len(res.defval) # 0)
    THEN [err |-> "ErrDefaultOnRequired", parser |-> p]
    ELSE withDefault(p, f, v, res.defval, subcommandOf(f),
            IF Len(res.defval) # 0 THEN ParseValue(res.defval, f.Type)
            ELSE [err |-> "nil", v |-> Zero(NilType)])

\* ArgumentParser.addArgument for field f with slot v
addArgument(p, f, v) == classified(p, f, v, defaultOf(f))

RECURSIVE addStructArgument(_, _, _)
\* the loop of addStructArgument goes on unless addArgument failed
fieldAdded(r, fields, i) ==
    IF r.err # "nil" THEN r
    ELSE addStructArgument(r.parser, fields, i + 1)

\* ArgumentParser.addStructArgument from field i of fields on
addStructArgument(p, fields, i) ==
    IF i > Len(fields) THEN [err |-> "nil", parser |-> p]
    ELSE IF fields[i].Type.kind = "struct"
    THEN addStructArgument(p, fields[i].Type.fields, 1)
    ELSE fieldAdded(addArgument(p, fields[i], Zero(fields[i].Type)), fields, i)

\* NewArgumentParser over a target struct of these fields
NewArgumentParser(fields) ==
    addStructArgument([optArgs |-> <<>>, posArgs |-> <<>>], fields, 1)

(***************************************************************************)
(* Subcommands.  subcommands maps a command name to its                    *)
(* SubcommandArgumentData: the nested parser and the callback.             *)
(***************************************************************************)
\* ArgumentParser.GetSubcommand: the index of the subcommand argument, 0 for nil
GetSubcommand(p) ==
    IF Len(p.posArgs) > 0 /\ IsSubcommand(p.posArgs[Len(p.posArgs)])
    THEN Len(p.posArgs)
    ELSE 0

\* lines 476-479: the new parser r.parser is recorded under command
subParserAdded(p, k, r, command, callback) ==
    IF r.err # "nil" THEN [err |-> r.err, parser |-> p]
    ELSE [err |-> "nil",
          parser |-> [p EXCEPT
             !.posArgs[k].subcommands =
                 [c \in DOMAIN @ \cup {command} |->
                     IF c = command
                     THEN [parser |-> r.parser, callback |-> callback]
                     ELSE @[c]],
             !.posArgs[k].choices = Append(@, command)]]

\* SubcommandArgument.AddSubParser on the subcommand argument of p
AddSubParser(p, fields, command, callback) ==
    subParserAdded(p, GetSubcommand(p), NewArgumentParser(fields), command, callback)

\* SubcommandArgument.GetSubParser: ok is FALSE for the nil parser, else cmd
\* is the command whose parser is returned
GetSubParser(a) ==
    [ok |-> a.value.v \in DOMAIN a.subcommands, cmd |-> a.value.v]

(***************************************************************************)
(* The parser engine.                                                      *)
(***************************************************************************)
matchesToken(a, token) ==
    HasPrefix(Token(a), token) \/ HasPrefix(ShortToken(a), token)

\* the loop of findOptionalArgument; match_arg and the result are indexes
\* into optArgs, 0 for nil
RECURSIVE findLoop(_, _, _, _)
findLoop(optArgs, token, i, match_arg) ==
    IF i > Len(optArgs) THEN match_arg
    ELSE IF matchesToken(optArgs[i], token)
    THEN IF match_arg # 0 THEN 0
         ELSE findLoop(optArgs, token, i + 1, i)
    ELSE findLoop(optArgs, token, i + 1, match_arg)

findOptionalArgument(p, token) == findLoop(p.optArgs, token, 1, 0)

RECURSIVE validateArgs(_, _)
validated(as, i, r) ==
    IF r.err # "nil" THEN [err |-> r.err, args |-> as]
    ELSE validateArgs([as EXCEPT ![i] = r.arg], i + 1)

\* validateArgs: the first error and the arguments after the defaults applied
validateArgs(as, i) ==
    IF i > Len(as) THEN [err |-> "nil", args |-> as]
    ELSE validated(as, i, ArgValidate(as[i]))

optionalsValidated(p, r2) ==
    [err |-> r2.err, parser |-> [p EXCEPT !.optArgs = r2.args]]

positionalsValidated(p, r1) ==
    IF r1.err # "nil" THEN [err |-> r1.err, parser |-> [p EXCEPT !.posArgs = r1.args]]
    ELSE optionalsValidated([p EXCEPT !.posArgs = r1.args],
                            validateArgs(p.optArgs, 1))

\* ArgumentParser.Validate
ParserValidate(p) == positionalsValidated(p, validateArgs(p.posArgs, 1))

\* the test after the loop left out
notEnoughNever(p, pos_idx) == FALSE
\* the test after the loop of ParseArgs (line 692); pos_idx is 0-based
notEnough(p, pos_idx) ==
    pos_idx < Len(p.posArgs) /\ ~IsOptional(p.posArgs[pos_idx + 1])

\* args[i:] instead, the subcommand token included
restArgsFromToken(as, i) == SubSeq(as, i, Len(as))
\* args[i+1:] for the 1-based index i of the subcommand token (line 683)
restArgs(as, i) == SubSeq(as, i + 1, Len(as))

\* what ParseArgs does when findOptionalArgument returned nil (line 658)
unknownOptional(mode) == IF ~mode THEN "ErrUnknownOptional" ELSE "nil"

Call(path, as, mode) == [path |-> path, args |-> as, ignore_unknown |-> mode]
Step(path, i, what) == [path |-> path, i |-> i, what |-> what]
Out(e, p, cl, st) == [err |-> e, parser |-> p, calls |-> cl, steps |-> st]

validatedOut(r, cl, st) == Out(r.err, r.parser, cl, st)

\* lines 692-695
finishParse(p, pos_idx, cl, st) ==
    IF notEnough(p, pos_idx) THEN Out("ErrNotEnough", p, cl, st)
    ELSE validatedOut(ParserValidate(p), cl, st)

\* the state of one ParseArgs invocation: the parser reached from the root
\* through the commands of path, its arguments, the cursor i (1-based), the
\* positional cursor, the mode, and the calls and steps so far
Frame(p, as, i, pos_idx, mode, path, cl, st) ==
    [p |-> p, as |-> as, i |-> i, pos_idx |-> pos_idx, mode |-> mode,
     path |-> path, cl |-> cl, st |-> st]

stepped(fr, what) == Append(fr.st, Step(fr.path, fr.i, what))

RECURSIVE parseLoop(_)

\* lines 644-648: the value of optional k was set, or not
optionalSet(fr, k, r) ==
    IF r.err # "nil" THEN Out(r.err, fr.p, fr.cl, fr.st)
    ELSE parseLoop([fr EXCEPT !.p.optArgs[k] = r.arg, !.i = fr.i + 2,
                       !.st = fr.st \o <<Step(fr.path, fr.i, "optional"),
                                          Step(fr.path, fr.i + 1, "value")>>])

\* a flag that takes the token after it along
actionDoneSkipping(fr, k, r) ==
    IF r.err # "nil" THEN Out(r.err, fr.p, fr.cl, fr.st)
    ELSE parseLoop([fr EXCEPT !.p.optArgs[k] = r.arg, !.i = fr.i + 2,
                       !.st = stepped(fr, "flag")])
\* lines 653-656
actionDone(fr, k, r) ==
    IF r.err # "nil" THEN Out(r.err, fr.p, fr.cl, fr.st)
    ELSE parseLoop([fr EXCEPT !.p.optArgs[k] = r.arg, !.i = fr.i + 1,
                       !.st = stepped(fr, "flag")])

\* lines 641-660 for the result k of findOptionalArgument
optionalToken(fr, k) ==
    IF k # 0
    THEN IF NeedData(fr.p.optArgs[k])
         THEN IF fr.i + 1 <= Len(fr.as)
              THEN optionalSet(fr, k, ArgSetValue(fr.p.optArgs[k], fr.as[fr.i + 1]))
              ELSE Out("ErrMissingArgument", fr.p, fr.cl, fr.st)
         ELSE actionDone(fr, k, DoAction(fr.p.optArgs[k]))
    ELSE IF unknownOptional(fr.mode) # "nil"
         THEN Out(unknownOptional(fr.mode), fr.p, fr.cl, fr.st)
         ELSE parseLoop([fr EXCEPT !.i = fr.i + 1, !.st = stepped(fr, "skipped")])

\* line 666: the error of SetValue is dropped
overflowSet(fr, r) ==
    parseLoop([fr EXCEPT !.p.posArgs[Len(fr.p.posArgs)] = r.arg, !.i = fr.i + 1,
                  !.st = stepped(fr, "overflow")])

\* lines 662-672
overflowToken(fr) ==
    IF Len(fr.p.posArgs) > 0 /\ IsMulti(fr.p.posArgs[Len(fr.p.posArgs)])
    THEN overflowSet(fr, ArgSetValue(fr.p.posArgs[Len(fr.p.posArgs)], fr.as[fr.i]))
    ELSE IF ~fr.mode THEN Out("ErrUnknownPositional", fr.p, fr.cl, fr.st)
         ELSE parseLoop([fr EXCEPT !.i = fr.i + 1, !.st = stepped(fr, "skipped")])

\* lines 684-687: the nested ParseArgs returned sub; the nested parser it
\* drove is the one the subcommand argument holds
subParsed(fr, cmd, sub) ==
    IF sub.err # "nil"
    THEN Out(sub.err,
             [fr.p EXCEPT !.posArgs[fr.pos_idx + 1].subcommands[cmd].parser = sub.parser],
             sub.calls, sub.steps)
    ELSE finishParse(
             [fr.p EXCEPT !.posArgs[fr.pos_idx + 1].subcommands[cmd].parser = sub.parser],
             fr.pos_idx + 1, sub.calls, sub.steps)

\* lines 681-683: a nil subparser is dereferenced by the nested ParseArgs
subcommandToken(fr, subparser) ==
    IF ~subparser.ok THEN Out("panic", fr.p, fr.cl, stepped(fr, "subcommand"))
    ELSE subParsed(fr, subparser.cmd,
            parseLoop(Frame(
                fr.p.posArgs[fr.pos_idx + 1].subcommands[subparser.cmd].parser,
                restArgs(fr.as, fr.i), 1, 0, fr.mode,
                Append(fr.path, subparser.cmd),
                Append(fr.cl, Call(Append(fr.path, subparser.cmd),
                                   restArgs(fr.as, fr.i), fr.mode)),
                stepped(fr, "subcommand"))))

\* lines 676-689 for the result r of SetValue on the next positional
positionalSet(fr, r) ==
    IF r.err # "nil" THEN Out(r.err, fr.p, fr.cl, fr.st)
    ELSE IF IsSubcommand(r.arg)
    THEN subcommandToken([fr EXCEPT !.p.posArgs[fr.pos_idx + 1] = r.arg],
                         GetSubParser(r.arg))
    ELSE parseLoop([fr EXCEPT !.p.posArgs[fr.pos_idx + 1] = r.arg,
                       !.i = fr.i + 1, !.pos_idx = fr.pos_idx + 1,
                       !.st = stepped(fr, "positional")])

\* the loop of ParseArgs (lines 638-691) and what follows it
parseLoop(fr) ==
    IF fr.i > Len(fr.as) THEN finishParse(fr.p, fr.pos_idx, fr.cl, fr.st)
    ELSE IF HasPrefix(fr.as[fr.i], <<"-">>)
    THEN optionalToken(fr, findOptionalArgument(fr.p, TrimLeft(fr.as[fr.i], "-")))
    ELSE IF fr.pos_idx >= Len(fr.p.posArgs)
    THEN overflowToken(fr)
    ELSE positionalSet(fr, ArgSetValue(fr.p.posArgs[fr.pos_idx + 1], fr.as[fr.i]))

\* ArgumentParser.ParseArgs on the root parser
ParseArgs(p, as, mode) ==
    parseLoop(Frame(p, as, 1, 0, mode, <<>>, <<Call(<<>>, as, mode)>>, <<>>))

(***************************************************************************)
(* Driving the parser engine: a parser built by the schema builder from a  *)
(* target struct, then one ParseArgs over a token stream.                  *)
(***************************************************************************)
MaxArgs == 3

Tag(name, val) == [NoTags EXCEPT ![name] = val]

fVa == Field(<<"V","a">>, BoolType, NoTags)
fVb == Field(<<"V","b">>, BoolType, NoTags)
fVaDefault == Field(<<"V","a">>, BoolType, Tag("default", <<"t","r","u","e">>))
fVbText == Field(<<"V","b">>, StringType, NoTags)
fN == Field(<<"N">>, StringType, NoTags)
fNChoices == Field(<<"N">>, StringType, Tag("choices", <<"n","|","c">>))
fM == Field(<<"M">>, ScalarT("uint8"), NoTags)
fO == Field(<<"O">>, StringType, Tag("optional", <<"t","r","u","e">>))
fF == Field(<<"F">>, ArrayT("string", 1), Tag("nargs", <<"+">>))
fS == Field(<<"S">>, StringType, Tag("subcommand", <<"t","r","u","e">>))

Built(fields) == NewArgumentParser(fields).parser
WithSub(p, fields, command) == AddSubParser(p, fields, command, "callback").parser
\* AddSubParser on the parser AddSubParser returned for command cmd of p
WithSubOf(p, cmd, fields, command) ==
    [p EXCEPT !.posArgs[GetSubcommand(p)].subcommands[cmd].parser =
                  WithSub(@, fields, command)]

ParseSchemas == {
    Built(<<>>),
    Built(<<fVa, fN>>),
    Built(<<fVa, fVb, fN, fO>>),
    Built(<<fVa, fVbText, fM>>),
    Built(<<fVaDefault, fNChoices, fM>>),
    Built(<<fVa, fN, fF>>),
    Built(<<fS>>),
    WithSub(WithSub(Built(<<fVa, fS>>), <<fVa, fVb, fN>>, <<"c">>), <<>>, <<"n">>),
    WithSubOf(WithSub(Built(<<fN, fS>>), <<fVb, fS>>, <<"c">>),
              <<"c">>, <<fVa, fO>>, <<"n">>) }

ParseTokens == {<<"-","-","v","a">>, <<"-","-","v">>, <<"-","x">>,
                <<"n">>, <<"c">>, <<"5">>}
TokenStreams == StringsUpTo(ParseTokens, MaxArgs)

ParseInit ==
    /\ parser0 \in ParseSchemas
    /\ parser = parser0
    /\ args = <<>> /\ ignore_unknown = FALSE
    /\ calls = <<>> /\ steps = <<>>
    /\ ret = "none"
    /\ pc = "init"
    /\ lines = <<>> /\ text = <<>>
    /\ IdleField /\ IdleCoerce /\ IdleArg

ParseRest == <<field, lines, text, parser0, coerceVars, argVars>>

Returned(r) ==
    /\ parser' = r.parser
    /\ ret' = r.err
    /\ calls' = r.calls
    /\ steps' = r.steps

DoParseArgs ==
    /\ pc = "init"
    /\ \E as \in TokenStreams, mode \in BOOLEAN :
          /\ args' = as
          /\ ignore_unknown' = mode
          /\ Returned(ParseArgs(parser, as, mode))
          /\ pc' = "ParseArgs"
          /\ UNCHANGED ParseRest

ParseNext == DoParseArgs

SpecParse == ParseInit /\ [][ParseNext]_vars

(***************************************************************************)
(* Driving gotypes directly: a slot of some kind and a text.               *)
(***************************************************************************)
TextChars == {"-", "0", "2", "3", "5", "6"}
BoundaryTexts == {
    <<"1","2","7">>,
    <<"1","2","8">>,
    <<"-","1","2","8">>,
    <<"-","1","2","9">>,
    <<"3","2","7","6","7">>,
    <<"3","2","7","6","8">>,
    <<"6","5","5","3","5">>,
    <<"6","5","5","3","6">>,
    <<"-","3","2","7","6","8">>,
    <<"-","3","2","7","6","9">>,
    <<"2","1","4","7","4","8","3","6","4","7">>,
    <<"2","1","4","7","4","8","3","6","4","8">>,
    <<"-","2","1","4","7","4","8","3","6","4","8">>,
    <<"-","2","1","4","7","4","8","3","6","4","9">>,
    <<"4","2","9","4","9","6","7","2","9","5">>,
    <<"4","2","9","4","9","6","7","2","9","6">>,
    <<"9","2","2","3","3","7","2","0","3","6","8","5","4","7","7","5","8","0","7">>,
    <<"9","2","2","3","3","7","2","0","3","6","8","5","4","7","7","5","8","0","8">>,
    <<"-","9","2","2","3","3","7","2","0","3","6","8","5","4","7","7","5","8","0","8">>,
    <<"-","9","2","2","3","3","7","2","0","3","6","8","5","4","7","7","5","8","0","9">>,
    <<"1","8","4","4","6","7","4","4","0","7","3","7","0","9","5","5","1","6","1","5">>,
    <<"1","8","4","4","6","7","4","4","0","7","3","7","0","9","5","5","1","6","1","6">>,
    <<"+","5">>,
    <<"x">>,
    <<"3","x">>,
    <<"t","r","u","e">>,
    <<"0","3","0","0">>}
CoerceTexts == StringsUpTo(TextChars, MaxTextLen) \cup BoundaryTexts

CoerceTypes == {ScalarT(k) : k \in ScalarKinds} \cup {SliceT("uint8"), ArrayT("string", 1)}

CoerceInit ==
    /\ slot \in {Zero(tp) : tp \in CoerceTypes}
    /\ text = <<>>
    /\ parsed = NoValue
    /\ ret = "none"
    /\ pc = "init"
    /\ IdleParse /\ IdleField /\ IdleArg

CoerceRest == <<field, parseVars, argVars>>

Stored(r) == slot' = r.value /\ ret' = r.err

DoParseValue ==
    /\ pc = "init"
    /\ \E val \in CoerceTexts :
          /\ text' = val
          /\ parsed' = ParseValue(val, slot.type).v
          /\ ret' = ParseValue(val, slot.type).err
          /\ pc' = "ParseValue"
          /\ UNCHANGED <<slot, CoerceRest>>

DoSetValue ==
    /\ pc = "init"
    /\ \E val \in CoerceTexts :
          /\ text' = val
          /\ Stored(SetValue(slot, val))
          /\ pc' = "SetValue"
          /\ UNCHANGED <<parsed, CoerceRest>>

DoAppendValue ==
    /\ pc = "init"
    /\ \E val \in CoerceTexts :
          /\ text' = val
          /\ Stored(AppendValue(slot, val))
          /\ pc' = "AppendValue"
          /\ UNCHANGED <<parsed, CoerceRest>>

CoerceNext == DoParseValue \/ DoSetValue \/ DoAppendValue

SpecCoerce == CoerceInit /\ [][CoerceNext]_vars

(***************************************************************************)
(* ParseFile.  lines is what the scanner yields; opening and reading the   *)
(* file are left out.                                                      *)
(***************************************************************************)
\* the error of parseKeyValue and the parser after it
keyValueSet(p, k, r) ==
    [err |-> r.err, parser |-> [p EXCEPT !.optArgs[k] = r.arg]]

keyFound(p, k, value) ==
    IF k # 0 THEN keyValueSet(p, k, ArgSetValue(p.optArgs[k], value))
    ELSE [err |-> "nil", parser |-> p]

\* ArgumentParser.parseKeyValue
parseKeyValue(p, key, value) == keyFound(p, findOptionalArgument(p, key), value)

\* the test of line 719 on the 0-based position of the separator
hasKeyValue(line, pos) == pos > 0 /\ pos < Len(line)

keyOf(line, pos) == ReplaceChar(Trim(SubSeq(line, 1, pos), " "), "_", "-")
valOf(line, pos) == Trim(SubSeq(line, pos + 2, Len(line)), " ")

\* the loop of ParseFile from line i on; the error of parseKeyValue is dropped
RECURSIVE fileLoop(_, _, _)
fileLoop(p, ls, i) ==
    IF i > Len(ls) THEN [err |-> "nil", parser |-> p]
    ELSE IF hasKeyValue(ls[i], IndexByte(ls[i], "="))
    THEN fileLoop(parseKeyValue(p, keyOf(ls[i], IndexByte(ls[i], "=")),
                                valOf(ls[i], IndexByte(ls[i], "="))).parser,
                  ls, i + 1)
    ELSE [err |-> "ErrMisformat", parser |-> p]

\* ArgumentParser.ParseFile
ParseFile(p, ls) == fileLoop(p, ls, 1)

MaxLines == 3

fTaB == Field(<<"T","a","B">>, ScalarT("uint8"), NoTags)
fTaBChoices == Field(<<"T","a","B">>, StringType, Tag("choices", <<"5">>))
fTa == Field(<<"T","a">>, StringType, NoTags)

FileSchemas == {Built(<<fTaB>>), Built(<<fTaB, fTa, fN>>), Built(<<fTaBChoices>>)}

FileLines == {<<"t","a","_","b"," ","="," ","5">>,
              <<"t","a","-","b","=","x">>,
              <<"t","a","=","5">>,
              <<"u","=","x">>,
              <<" ","=","5">>,
              <<"=","x">>,
              <<"t","a">>,
              <<>>}

FileInit ==
    /\ parser0 \in FileSchemas
    /\ parser = parser0
    /\ lines = <<>>
    /\ args = <<>> /\ ignore_unknown = FALSE /\ calls = <<>> /\ steps = <<>>
    /\ ret = "none"
    /\ pc = "init"
    /\ text = <<>>
    /\ IdleField /\ IdleCoerce /\ IdleArg

Read(r) == parser' = r.parser /\ ret' = r.err

DoParseFile ==
    /\ pc = "init"
    /\ \E ls \in StringsUpTo(FileLines, MaxLines) :
          /\ lines' = ls
          /\ Read(ParseFile(parser, ls))
          /\ pc' = "ParseFile"
          /\ UNCHANGED <<args, ignore_unknown, calls, steps, parser0, field, text,
                         coerceVars, argVars>>

FileNext == DoParseFile

SpecFile == FileInit /\ [][FileNext]_vars

(***************************************************************************)
(* Driving one argument: a spec the schema builder made from a field, then *)
(* SetValue, DoAction and Validate on it.                                  *)
(***************************************************************************)
MaxSupplied == 2
MaxArrayLen == 2

ArgNames == {<<"F">>, <<"F","a">>}
ArgTypes == {StringType, BoolType, ScalarT("uint8"), SliceT("string")}
                \cup {ArrayT("string", n) : n \in 0..MaxArrayLen}
ArgTagSets == {NoTags, Tag("choices", <<"a","|","5">>)}
                \cup {Tag("nargs", n) : n \in {<<"*">>, <<"+">>, <<"?">>, <<"1">>, <<"2">>}}
                \cup {[NoTags EXCEPT !.nargs = <<"+">>, !.choices = <<"a","|","5">>]}
                \cup {[NoTags EXCEPT !.optional = <<"t","r","u","e">>, !.default = <<"5">>]}

ArgFields == {Field(n, tp, tags) : n \in ArgNames, tp \in ArgTypes, tags \in ArgTagSets}

ArgTexts == {<<"a">>, <<"x">>, <<"5">>, <<>>}

\* the argument addArgument registers for f in an empty parser
argOf(r) == (r.parser.optArgs \o r.parser.posArgs)[1]
Registers(f) == addArgument(NoParser, f, Zero(f.Type)).err = "nil"
ArgumentOf(f) == argOf(addArgument(NoParser, f, Zero(f.Type)))

ArgInit ==
    /\ field \in {f \in ArgFields : Registers(f)}
    /\ arg = ArgumentOf(field)
    /\ supplied = 0
    /\ text = <<>>
    /\ ret = "none"
    /\ pc = "init"
    /\ IdleParse /\ IdleCoerce

ArgRest == <<field, parseVars, coerceVars>>

Applied(r) ==
    /\ arg' = r.arg
    /\ ret' = r.err
    /\ supplied' = IF r.err = "nil" /\ pc' = "SetValue" THEN supplied + 1 ELSE supplied

DoArgSetValue ==
    /\ pc \in {"init", "SetValue", "DoAction"}
    /\ supplied < MaxSupplied
    /\ \E val \in ArgTexts :
          /\ text' = val
          /\ pc' = "SetValue"
          /\ Applied(ArgSetValue(arg, val))
          /\ UNCHANGED ArgRest

DoArgAction ==
    /\ pc \in {"init", "SetValue"}
    /\ ~NeedData(arg)
    /\ pc' = "DoAction"
    /\ Applied(DoAction(arg))
    /\ UNCHANGED <<text, ArgRest>>

DoArgValidate ==
    /\ pc \in {"init", "SetValue", "DoAction"}
    /\ pc' = "Validate"
    /\ Applied(ArgValidate(arg))
    /\ UNCHANGED <<text, ArgRest>>

ArgNext == DoArgSetValue \/ DoArgAction \/ DoArgValidate

SpecArg == ArgInit /\ [][ArgNext]_vars

(***************************************************************************)
(* Driving the schema builder: fields registered one after another into    *)
(* one parser.                                                             *)
(***************************************************************************)
MaxFields == 3

fODefault == Field(<<"O">>, StringType,
                   [NoTags EXCEPT !.optional = <<"t","r","u","e">>, !.default = <<"x">>])
fNDefault == Field(<<"N">>, StringType, Tag("default", <<"x">>))
fFBad == Field(<<"F">>, ArrayT("string", 1), Tag("nargs", <<"x">>))
fL == Field(<<"L">>, SliceT("string"), NoTags)
fSubDefault == Field(<<"s","u","b">>, StringType,
                     [NoTags EXCEPT !.subcommand = <<"t","r","u","e">>, !.default = <<"c">>])

SchemaFields == {fN, fM, fO, fODefault, fNDefault, fF, fFBad, fL, fS, fSubDefault,
                 fVa, fVbText}

SchemaInit ==
    /\ parser = NoParser
    /\ parser0 = NoParser
    /\ field = NoField
    /\ ret = "none"
    /\ pc = "init"
    /\ args = <<>> /\ ignore_unknown = FALSE /\ calls = <<>> /\ steps = <<>>
    /\ lines = <<>> /\ text = <<>>
    /\ IdleCoerce /\ IdleArg

Built1(r) == parser' = r.parser /\ ret' = r.err

DoAddArgument ==
    /\ Len(parser.posArgs) + Len(parser.optArgs) < MaxFields
    /\ \E f \in SchemaFields :
          /\ field' = f
          /\ Built1(addArgument(parser, f, Zero(f.Type)))
          /\ parser0' = parser
          /\ pc' = "addArgument"
          /\ UNCHANGED <<args, ignore_unknown, calls, steps, lines, text,
                         coerceVars, argVars>>

SchemaNext == DoAddArgument

SpecSchema == SchemaInit /\ [][SchemaNext]_vars

(***************************************************************************)
(* Driving NewArgumentParser over a target struct whose fields are scalars *)
(* and nested structs of scalars.  field is the target, as a struct field. *)
(***************************************************************************)
MaxStructFields == 3
MaxNestedFields == 2

LeafFields == {fVa, fN, fM}
NestedStructs ==
    {Field(<<"I","n">>, StructT(fs), NoTags) : fs \in StringsUpTo(LeafFields, MaxNestedFields)}
TargetFields == StringsUpTo(LeafFields \cup NestedStructs, MaxStructFields)

BuildInit ==
    /\ parser = NoParser
    /\ parser0 = NoParser
    /\ field = NoField
    /\ ret = "none"
    /\ pc = "init"
    /\ args = <<>> /\ ignore_unknown = FALSE /\ calls = <<>> /\ steps = <<>>
    /\ lines = <<>> /\ text = <<>>
    /\ IdleCoerce /\ IdleArg

DoNewArgumentParser ==
    /\ pc = "init"
    /\ \E fs \in TargetFields :
          /\ field' = Field(<<"T">>, StructT(fs), NoTags)
          /\ Built1(NewArgumentParser(fs))
          /\ pc' = "NewArgumentParser"
          /\ UNCHANGED <<parser0, args, ignore_unknown, calls, steps, lines, text,
                         coerceVars, argVars>>

BuildNext == DoNewArgumentParser

SpecBuild == BuildInit /\ [][BuildNext]_vars

(***************************************************************************)
(* Driving the token derivation: one field, named and maybe token-tagged,  *)
(* registered into an empty parser.                                        *)
(***************************************************************************)
NameChars == {"A", "U", "a", "_", "1"}
TagChars == {"a", "U", "-"}
FieldNames == {n \in StringsUpTo(NameChars, MaxIdentLen) : Len(n) > 0 /\ n[1] # "1"}
TokenTags == StringsUpTo(TagChars, MaxTagLen)

TokenInit ==
    /\ parser = NoParser
    /\ parser0 = NoParser
    /\ field = NoField
    /\ ret = "none"
    /\ pc = "init"
    /\ args = <<>> /\ ignore_unknown = FALSE /\ calls = <<>> /\ steps = <<>>
    /\ lines = <<>> /\ text = <<>>
    /\ IdleCoerce /\ IdleArg

\* token is Token() of the argument just registered
DoDeriveToken ==
    /\ pc = "init"
    /\ \E n \in FieldNames, t \in TokenTags :
          /\ field' = Field(n, StringType, Tag("token", t))
          /\ Built1(addArgument(parser, Field(n, StringType, Tag("token", t)),
                                Zero(StringType)))
          /\ text' = Token(ArgumentOf(Field(n, StringType, Tag("token", t))))
          /\ pc' = "addArgument"
          /\ UNCHANGED <<parser0, args, ignore_unknown, calls, steps, lines,
                         coerceVars, argVars>>

TokenNext == DoDeriveToken

SpecToken == TokenInit /\ [][TokenNext]_vars

(***************************************************************************)
(* What the parse of a state shows.                                        *)
(***************************************************************************)
\* the parser reached from p through the commands of path
RECURSIVE ParserAt(_, _)
ParserAt(p, path) ==
    IF Len(path) = 0 THEN p
    ELSE ParserAt(p.posArgs[GetSubcommand(p)].subcommands[path[1]].parser, Tail(path))

CallsOf(path) == {k \in DOMAIN calls : calls[k].path = path}
StepsOf(path) == {k \in DOMAIN steps : steps[k].path = path}

\* the tokens a ParseArgs invocation gave to positional arguments in declared order
FilledBy(path) ==
    Cardinality({k \in StepsOf(path) : steps[k].what \in {"positional", "subcommand"}})

\* the invocation went through all of its tokens
Exhausted(c) ==
    \A i \in 1..Len(c.args) : \E k \in StepsOf(c.path) : steps[k].i = i

\* the slots of the target a parser fills, and the parser without the nested
\* parsers of its subcommand argument
Slots(p) == <<[k \in DOMAIN p.optArgs |-> p.optArgs[k].value],
              [k \in DOMAIN p.posArgs |-> p.posArgs[k].value]>>
OwnSpecs(p) ==
    <<p.optArgs,
      [k \in DOMAIN p.posArgs |-> [p.posArgs[k] EXCEPT !.subcommands = DOMAIN @]]>>

IsMarked(token) == HasPrefix(token, <<"-">>)

\* the optional arguments of p that marker-stripped token is a prefix of
PrefixMatches(p, token) ==
    {k \in DOMAIN p.optArgs :
        \/ HasPrefix(splitCamelString(p.optArgs[k].token), TrimLeft(token, "-"))
        \/ HasPrefix(p.optArgs[k].shortToken, TrimLeft(token, "-"))}

(***************************************************************************)
(* C1.  Once token i of a ParseArgs invocation fills the subcommand        *)
(* argument with a registered command, the nested parser of that command   *)
(* is invoked exactly once, with tokens i+1..end in order and the same     *)
(* mode; the invoking parser consumes no later token, and what follows     *)
(* token i changes none of its own arguments.                              *)
(***************************************************************************)
DelegatedAt(k) ==
    /\ steps[k].what = "subcommand"
    /\ \E c \in CallsOf(steps[k].path) :
          calls[c].args[steps[k].i] \in
              DOMAIN ParserAt(parser0, steps[k].path).posArgs[
                  GetSubcommand(ParserAt(parser0, steps[k].path))].subcommands

NestedPath(k) ==
    Append(steps[k].path,
           calls[CHOOSE c \in CallsOf(steps[k].path) : TRUE].args[steps[k].i])

SubcommandDelegation ==
    pc = "ParseArgs" =>
        \A k \in DOMAIN steps : DelegatedAt(k) =>
            /\ Cardinality(CallsOf(steps[k].path)) = 1
            /\ Cardinality(CallsOf(NestedPath(k))) = 1
            /\ \A c \in CallsOf(steps[k].path), n \in CallsOf(NestedPath(k)) :
                  /\ calls[n].args = SubSeq(calls[c].args, steps[k].i + 1,
                                            Len(calls[c].args))
                  /\ calls[n].ignore_unknown = calls[c].ignore_unknown
            /\ \A j \in DOMAIN steps : j > k =>
                  /\ steps[j].path # steps[k].path
                  /\ HasPrefix(steps[j].path, NestedPath(k))
            /\ (steps[k].path = <<>> /\ ret = "nil") =>
                  \A tail \in StringsUpTo(ParseTokens, 1) :
                      ParseArgs(parser0, SubSeq(args, 1, steps[k].i) \o tail,
                                ignore_unknown).err = "nil"
                      => OwnSpecs(ParseArgs(parser0, SubSeq(args, 1, steps[k].i) \o tail,
                                            ignore_unknown).parser)
                          = OwnSpecs(parser)

\* a parse that delegated at the root with tokens left, and succeeded
SubcommandDelegationWitness ==
    /\ pc = "ParseArgs"
    /\ ret = "nil"
    /\ \E k \in DOMAIN steps :
          /\ DelegatedAt(k)
          /\ steps[k].path = <<>>
          /\ steps[k].i < Len(args)
          /\ \E j \in DOMAIN steps : j > k

(***************************************************************************)
(* C2.  If the marker-stripped text of a token that ParseArgs looks up is  *)
(* a prefix of the long or short token of two or more optional arguments,  *)
(* ParseArgs returns an error, in strict and in lenient mode.              *)
(***************************************************************************)
AmbiguousPrefixFails ==
    (/\ pc = "ParseArgs"
     /\ GetSubcommand(parser0) = 0
     /\ \E i \in DOMAIN args :
           /\ IsMarked(args[i])
           /\ Cardinality(PrefixMatches(parser0, args[i])) >= 2
           /\ ~\E k \in StepsOf(<<>>) : steps[k].i = i /\ steps[k].what = "value")
    => ret # "nil"

(***************************************************************************)
(* C3.  ParseValue and SetValue of a decimal text whose value lies outside *)
(* the range of a signed or unsigned 8-, 16- or 32-bit kind return an      *)
(* error, and SetValue leaves the slot as it was.                          *)
(***************************************************************************)
NarrowKinds == {"int8", "int16", "int32", "uint8", "uint16", "uint32"}

IsDigits(d) == Len(d) > 0 /\ \A i \in DOMAIN d : d[i] \in Digits
IsNegative(t) == Len(t) > 0 /\ t[1] = "-"
Magnitude(t) == TrimLeft(IF IsNegative(t) THEN Tail(t) ELSE t, "0")
IsDecimal(t) == IsDigits(IF IsNegative(t) THEN Tail(t) ELSE t)

\* digit texts without leading zeros, compared as numbers
Exceeds(x, y) ==
    \/ Len(x) > Len(y)
    \/ /\ Len(x) = Len(y)
       /\ \E i \in DOMAIN x :
             /\ DigitVal(x[i]) > DigitVal(y[i])
             /\ \A j \in 1..(i - 1) : x[j] = y[j]

\* the largest magnitude of the kind, on the negative and on the other side
Largest(k, negative) ==
    CASE k = "uint8" -> IF negative THEN <<>> ELSE <<"2","5","5">>
      [] k = "uint16" -> IF negative THEN <<>> ELSE <<"6","5","5","3","5">>
      [] k = "uint32" ->
            IF negative THEN <<>> ELSE <<"4","2","9","4","9","6","7","2","9","5">>
      [] k = "int8" -> IF negative THEN <<"1","2","8">> ELSE <<"1","2","7">>
      [] k = "int16" ->
            IF negative THEN <<"3","2","7","6","8">> ELSE <<"3","2","7","6","7">>
      [] k = "int32" ->
            IF negative THEN <<"2","1","4","7","4","8","3","6","4","8">>
            ELSE <<"2","1","4","7","4","8","3","6","4","7">>

OutOfRange(t, k) == IsDecimal(t) /\ Exceeds(Magnitude(t), Largest(k, IsNegative(t)))

RangeCheckedCoercion ==
    (/\ pc \in {"ParseValue", "SetValue"}
     /\ slot.type.kind \in NarrowKinds
     /\ OutOfRange(text, slot.type.kind))
    => /\ ret # "nil"
       /\ pc = "SetValue" => slot = Zero(slot.type)

(***************************************************************************)
(* C4.  For a multi-valued argument that passes the required/default       *)
(* check, Validate returns nil if and only if the number of values         *)
(* supplied lies within [minCount, maxCount], -1 being no bound.           *)
(***************************************************************************)
WithinBounds(n, min, max) == (min = -1 \/ min <= n) /\ (max = -1 \/ n <= max)

MultiplicityBounds ==
    (pc = "Validate" /\ IsMulti(arg) /\ ret # "ErrNotSet")
    => (ret = "nil" <=> WithinBounds(supplied, arg.minCount, arg.maxCount))

(***************************************************************************)
(* C5.  SetValue with a text outside a non-empty choice set returns an     *)
(* error and leaves the argument, its slot included, as it was; with an    *)
(* empty choice set the choice error is never returned.                    *)
(***************************************************************************)
ChoiceSet(a) == {a.choices[i] : i \in DOMAIN a.choices}

ChoiceEnforcement ==
    [][pc' = "SetValue" =>
          /\ (ChoiceSet(arg) # {} /\ text' \notin ChoiceSet(arg))
                => (ret' # "nil" /\ arg' = arg)
          /\ ChoiceSet(arg) = {} => ret' # "ErrChoice"]_vars

\* a text outside the choices was refused after one inside them was stored
ChoiceEnforcementWitness ==
    /\ pc = "SetValue"
    /\ ChoiceSet(arg) # {} /\ text \notin ChoiceSet(arg)
    /\ ret = "ErrChoice"
    /\ supplied = 1
    /\ arg.isSet /\ arg.value.v \in ChoiceSet(arg)

(***************************************************************************)
(* C6.  ParseFile returns the format error exactly when some line is       *)
(* non-empty and has no "="; an empty line does not abort the read.        *)
(***************************************************************************)
HasSeparator(line) == \E i \in DOMAIN line : line[i] = "="

FileFormatPolicy ==
    pc = "ParseFile" =>
        (ret = "ErrMisformat"
            <=> \E i \in DOMAIN lines : Len(lines[i]) > 0 /\ ~HasSeparator(lines[i]))

(***************************************************************************)
(* C7.  The token derived from a text with a lower-case letter has no      *)
(* upper-case letter and a hyphen exactly before each upper-case letter    *)
(* that follows a character that is neither upper-case nor a hyphen; a     *)
(* text without lower-case letters is the token as it is.  A field whose   *)
(* name has no lower-case letter is positional, any other optional.        *)
(***************************************************************************)
AllUpper(str) == \A i \in DOMAIN str : str[i] \notin LowerLetters

\* an upper-case letter after a character neither upper-case nor a hyphen
Boundary(str, i) ==
    /\ i > 1
    /\ str[i] \in UpperLetters
    /\ str[i - 1] \notin UpperLetters
    /\ str[i - 1] # "-"

\* where character i of str stands in the derived token
Place(str, i) == i + Cardinality({j \in 1..i : Boundary(str, j)})

Hyphenated(str, token) ==
    /\ \A j \in DOMAIN token : token[j] \notin UpperLetters
    /\ Len(token) = Place(str, Len(str))
    /\ \A i \in DOMAIN str :
          /\ Boundary(str, i) => token[Place(str, i) - 1] = "-"
          /\ str[i] \in UpperLetters => token[Place(str, i)] = ToLowerChar(str[i])
          /\ str[i] \notin UpperLetters \cup {"_"} => token[Place(str, i)] = str[i]

\* the text the token of the registered argument is derived from
Registered == (parser.optArgs \o parser.posArgs)[1]

TokenDerivation ==
    (pc = "addArgument" /\ ret = "nil") =>
        /\ IF AllUpper(Registered.token) THEN text = Registered.token
           ELSE Hyphenated(Registered.token, text)
        /\ Len(field.Tag.token) = 0 => Registered.token = field.Name
        /\ AllUpper(field.Name) <=> IsPositional(Registered)
        /\ AllUpper(field.Name) <=> ~IsOptional(Registered)
        /\ IsPositional(Registered) <=> Len(parser.posArgs) = 1

\* a name with a boundary, and a tag that has a hyphen before a capital
TokenDerivationWitness ==
    /\ pc = "addArgument" /\ ret = "nil"
    /\ \/ /\ field.Name = <<"a","U","a">> /\ Len(field.Tag.token) = 0
          /\ text = <<"a","-","u","a">>
       \/ /\ field.Tag.token = <<"a","-","U">>
          /\ text = <<"a","-","u">>

(***************************************************************************)
(* C8.  For a parser of scalar positionals and boolean flags, streams that *)
(* differ only in where the flag tokens stand among the positional tokens  *)
(* give the same outcome and the same final slots.                         *)
(***************************************************************************)
FlagSchema(p) ==
    /\ \A k \in DOMAIN p.posArgs : p.posArgs[k].variant = "single"
    /\ \A k \in DOMAIN p.optArgs :
          p.optArgs[k].variant = "single" /\ p.optArgs[k].value.type = BoolType

Permuted(as, f) == [k \in DOMAIN as |-> as[f[k]]]

\* the streams with the positional tokens of as in the same order and the
\* same flag tokens
Reorderings(as) ==
    {Permuted(as, f) : f \in {g \in [DOMAIN as -> DOMAIN as] :
        /\ \A x, y \in DOMAIN as : x # y => g[x] # g[y]
        /\ SelectSeq(Permuted(as, g), LAMBDA t : ~IsMarked(t))
              = SelectSeq(as, LAMBDA t : ~IsMarked(t))}}

SameOutcome(r) == (r.err = "nil") <=> (ret = "nil")

\* the claim as stated: also the slots of a failed parse agree
OrderIndependence ==
    (pc = "ParseArgs" /\ FlagSchema(parser0)) =>
        \A bs \in Reorderings(args) :
            /\ SameOutcome(ParseArgs(parser0, bs, ignore_unknown))
            /\ Slots(ParseArgs(parser0, bs, ignore_unknown).parser) = Slots(parser)

\* C8 as amended: the streams succeed or fail together, and when they succeed
\* the final slots are the same
OrderIndependenceOnSuccess ==
    (pc = "ParseArgs" /\ FlagSchema(parser0)) =>
        \A bs \in Reorderings(args) :
            /\ SameOutcome(ParseArgs(parser0, bs, ignore_unknown))
            /\ ret = "nil" =>
                  Slots(ParseArgs(parser0, bs, ignore_unknown).parser) = Slots(parser)

\* a successful parse of a flag before a positional, which has a reordering
OrderIndependenceWitness ==
    /\ pc = "ParseArgs" /\ FlagSchema(parser0) /\ ret = "nil"
    /\ Len(args) >= 2 /\ IsMarked(args[1]) /\ ~IsMarked(args[2])
    /\ Cardinality(Reorderings(args)) > 1
    /\ \E k \in DOMAIN parser.optArgs : parser.optArgs[k].value.v = TRUE

(***************************************************************************)
(* C9.  A ParseArgs invocation that goes through all of its tokens while a *)
(* required positional is unfilled makes ParseArgs return the              *)
(* not-enough-arguments error, in either mode; ParseArgs returns nil only  *)
(* if every required positional of every invoked parser was filled.        *)
(***************************************************************************)
UnfilledRequired(c) ==
    \E k \in DOMAIN ParserAt(parser0, c.path).posArgs :
        /\ ~ParserAt(parser0, c.path).posArgs[k].optional
        /\ k > FilledBy(c.path)

NotEnoughArguments ==
    pc = "ParseArgs" =>
        \A n \in DOMAIN calls :
            /\ (Exhausted(calls[n]) /\ UnfilledRequired(calls[n]))
                  => ret = "ErrNotEnough"
            /\ ret = "nil" =>
                  /\ ~UnfilledRequired(calls[n])
                  /\ \A k \in DOMAIN ParserAt(parser, calls[n].path).posArgs :
                        ~ParserAt(parser, calls[n].path).posArgs[k].optional
                            => ParserAt(parser, calls[n].path).posArgs[k].isSet

\* a lenient parse that skipped its only token and had a required positional left
NotEnoughArgumentsWitness ==
    /\ pc = "ParseArgs"
    /\ ignore_unknown
    /\ Len(args) > 0
    /\ Exhausted(calls[1]) /\ UnfilledRequired(calls[1])
    /\ ret = "ErrNotEnough"

(***************************************************************************)
(* C10.  The positional sequence of a parser has a multi-valued or         *)
(* subcommand argument only in last place and no required argument after   *)
(* an optional one; a registration that would break this returns a schema  *)
(* error and leaves the positional and the optional sequence as they were. *)
(***************************************************************************)
Ordered(posArgs) ==
    \A k \in DOMAIN posArgs :
        /\ (IsMulti(posArgs[k]) \/ IsSubcommand(posArgs[k])) => k = Len(posArgs)
        /\ \A j \in 1..(k - 1) : IsOptional(posArgs[j]) => IsOptional(posArgs[k])

WouldBreak(p, a) == IsPositional(a) /\ ~Ordered(Append(p.posArgs, a))

OrderErrors == {"ErrAfterMulti", "ErrAfterSubcommand", "ErrAfterOptional"}

PositionalOrdering ==
    /\ Ordered(parser.posArgs)
    /\ (pc = "addArgument" /\ Registers(field) /\ WouldBreak(parser0, ArgumentOf(field)))
          => (ret \in OrderErrors /\ parser = parser0)
    /\ (pc = "addArgument" /\ ret # "nil") => parser = parser0

\* a positional refused after a multi-valued one, with an optional registered
PositionalOrderingWitness ==
    /\ pc = "addArgument"
    /\ ret = "ErrAfterMulti"
    /\ Len(parser.optArgs) > 0
    /\ Len(parser.posArgs) > 0
    /\ WouldBreak(parser0, ArgumentOf(field))

(***************************************************************************)
(* C11.  No argument the schema builder registers is positional, required  *)
(* and has a default, and every subcommand argument is positional and      *)
(* required; a field that resolves a default and ends up required and      *)
(* positional is refused with the schema error.                            *)
(***************************************************************************)
AllArgs(p) == p.optArgs \o p.posArgs

DefaultInvariant ==
    \A k \in DOMAIN AllArgs(parser) :
        /\ (IsPositional(AllArgs(parser)[k]) /\ ~IsOptional(AllArgs(parser)[k]))
              => ~AllArgs(parser)[k].useDefault
        /\ IsSubcommand(AllArgs(parser)[k])
              => (IsPositional(AllArgs(parser)[k]) /\ ~IsOptional(AllArgs(parser)[k]))

(***************************************************************************)
(* C12.  NewArgumentParser registers every scalar field of the target once,*)
(* in depth-first order, the fields after a nested struct included: the    *)
(* optional and the positional sequence are the depth-first flattening of  *)
(* the field tree, each restricted to its class.                           *)
(***************************************************************************)
RECURSIVE Flatten(_)
Flatten(fields) ==
    IF Len(fields) = 0 THEN <<>>
    ELSE (IF Head(fields).Type.kind = "struct" THEN Flatten(Head(fields).Type.fields)
          ELSE <<Head(fields).Name>>) \o Flatten(Tail(fields))

NamesOf(as) == [k \in DOMAIN as |-> as[k].token]

NestedFlattening ==
    (pc = "NewArgumentParser" /\ ret = "nil") =>
        /\ NamesOf(parser.optArgs)
              = SelectSeq(Flatten(field.Type.fields), LAMBDA n : ~positionalByName(n))
        /\ NamesOf(parser.posArgs)
              = SelectSeq(Flatten(field.Type.fields), LAMBDA n : positionalByName(n))

(***************************************************************************)
(* C13.  A field whose type is an array or a slice, without the subcommand *)
(* tag, is registered as a multi-valued argument, and SetValue on it with  *)
(* a valid text returns nil and leaves that text as the last value of the  *)
(* slot.                                                                   *)
(***************************************************************************)
IsSequence(tp) == tp.kind \in {"array", "slice"}

MultiVariantAppend ==
    (/\ pc = "SetValue"
     /\ IsSequence(field.Type) /\ field.Type.elem = "string"
     /\ (ChoiceSet(arg) = {} \/ text \in ChoiceSet(arg)))
    => /\ IsMulti(arg)
       /\ ret = "nil"
       /\ Len(arg.value.v) > 0
       /\ arg.value.v[Len(arg.value.v)] = text

(***************************************************************************)
(* C14.  When SetValue on the argument of a recognized key of a line       *)
(* returns an error, ParseFile returns an error.                           *)
(***************************************************************************)
KeyArg(line) == findOptionalArgument(parser0, keyOf(line, IndexByte(line, "=")))

ValueRefused(line) ==
    /\ hasKeyValue(line, IndexByte(line, "="))
    /\ KeyArg(line) # 0
    /\ ArgSetValue(parser0.optArgs[KeyArg(line)],
                   valOf(line, IndexByte(line, "="))).err # "nil"

SetValueErrorsSurface ==
    (pc = "ParseFile" /\ \E i \in DOMAIN lines : ValueRefused(lines[i]))
        => ret # "nil"

(***************************************************************************)
(* C15.  When the first token without a marker reaches a subcommand        *)
(* argument that is the only positional, and is not a registered command,  *)
(* ParseArgs returns an error, the argument is not marked as set, and no   *)
(* nested parser is invoked.                                               *)
(***************************************************************************)
Unmarked(as) == {i \in DOMAIN as : ~IsMarked(as[i])}

FirstUnmarked(as) == CHOOSE i \in Unmarked(as) : \A j \in Unmarked(as) : i <= j

UnregisteredAtRoot ==
    /\ GetSubcommand(parser0) = 1
    /\ \A k \in DOMAIN parser0.optArgs : ~NeedData(parser0.optArgs[k])
    /\ Unmarked(args) # {}
    /\ args[FirstUnmarked(args)] \notin DOMAIN parser0.posArgs[1].subcommands

UnregisteredSubcommand ==
    (pc = "ParseArgs" /\ UnregisteredAtRoot) =>
        /\ ret \notin {"nil", "panic"}
        /\ ~parser.posArgs[1].isSet
        /\ Cardinality(DOMAIN calls) = 1

====
